---- MODULE Spec2Model ----
(***************************************************************************)
(* rere: RedactWithAllowList / RedactWithDenyList (src/rere.go).           *)
(*                                                                         *)
(* A Go value is laid out in a heap of cells.  Every value node (a string, *)
(* a slice header, a struct, a struct field, an element of a backing       *)
(* array, ...) is one cell; a cell names the cells it holds or refers to   *)
(* in `kids`.  Cells held inline (struct fields, array elements) are       *)
(* copied by a Go assignment; cells referred to (pointer targets, slice    *)
(* backing arrays, map tables, interface payloads) are shared by it.       *)
(* Strings, byte slices and names are sequences of bytes, as in Go.        *)
(*                                                                         *)
(* The engine is that of src/rere.go.  src/unnamed/part_001 holds another  *)
(* revision of the same file (names compared with strings.EqualFold, the   *)
(* name test applied to string and []byte fields only); it is not the one  *)
(* modelled here.                                                          *)
(***************************************************************************)
EXTENDS Integers, Sequences, FiniteSets, TLC

VARIABLES heap, pc, value, originalInput, mode, fieldKeyNameList, result,
          frames

vars == <<heap, pc, value, originalInput, mode, fieldKeyNameList, result,
          frames>>

----------------------------------------------------------------------------
(* Bounds of the model *)

MaxListLen == 2
MaxSeqLen == 2
MaxPtrDepth == 2
NumCalls == 2

----------------------------------------------------------------------------
(* Constants of the program *)

redactedMessage == <<82, 69, 68, 65, 67, 84, 69, 68>>

allow == "allow"
deny == "deny"

----------------------------------------------------------------------------
(* Names and contents used by the tests and examples *)

Username == <<85, 115, 101, 114, 110, 97, 109, 101>>
username == <<117, 115, 101, 114, 110, 97, 109, 101>>
Password == <<80, 97, 115, 115, 119, 111, 114, 100>>
password == <<112, 97, 115, 115, 119, 111, 114, 100>>
Key == <<75, 101, 121>>
IsAdmin == <<73, 115, 65, 100, 109, 105, 110>>
Groups == <<71, 114, 111, 117, 112, 115>>
groups == <<103, 114, 111, 117, 112, 115>>
Nested == <<78, 101, 115, 116, 101, 100>>
NestedStructs == <<78, 101, 115, 116, 101, 100, 83, 116, 114, 117, 99, 116, 115>>
Value == <<86, 97, 108, 117, 101>>

hunter2 == <<104, 117, 110, 116, 101, 114, 50>>
hello == <<104, 101, 108, 108, 111>>

----------------------------------------------------------------------------
(* Value nodes.  k: the reflect.Kind class of the node; s: the bytes of a  *)
(* string or byte sequence; n: 0 for a nil slice/map/pointer/interface, 1  *)
(* otherwise, or the number of an opaque leaf; names: field names of a     *)
(* struct, keys of a map table; kids: the nodes held or referred to.       *)

Node(k, s, n, names, kids) ==
    [k |-> k, s |-> s, n |-> n, names |-> names, kids |-> kids]

String(s) == Node("string", s, 0, <<>>, <<>>)
ByteSlice(s) == Node("bytes", s, 1, <<>>, <<>>)
NilByteSlice == Node("bytes", <<>>, 0, <<>>, <<>>)
ByteArray(s) == Node("bytearray", s, 0, <<>>, <<>>)
Opaque(n) == Node("opaque", <<>>, n, <<>>, <<>>)
Pointer(t) == Node("ptr", <<>>, 1, <<>>, <<t>>)
NilPointer == Node("ptr", <<>>, 0, <<>>, <<>>)
Slice(ts) == Node("slice", <<>>, 1, <<>>, ts)
NilSlice == Node("slice", <<>>, 0, <<>>, <<>>)
Array(ts) == Node("array", <<>>, 0, <<>>, ts)
Map(keys, ts) == Node("map", <<>>, 1, <<>>, <<Node("table", <<>>, 0, keys, ts)>>)
NilMap == Node("map", <<>>, 0, <<>>, <<>>)
Struct(names, ts) == Node("struct", <<>>, 0, names, ts)
Interface(t) == Node("iface", <<>>, 1, <<>>, <<t>>)
NilInterface == Node("iface", <<>>, 0, <<>>, <<>>)

----------------------------------------------------------------------------
(* The heap: a sequence of cells; a cell's address is its index, 0 is no   *)
(* cell (nil, or the invalid reflect.Value).                               *)

RECURSIVE Alloc(_, _), AllocSeq(_, _)

\* lay the trees ts out in fresh cells after h
AllocSeq(h, ts) ==
    IF ts = <<>> THEN [h |-> h, as |-> <<>>]
    ELSE LET first == Alloc(h, Head(ts))
             rest == AllocSeq(first.h, Tail(ts))
         IN [h |-> rest.h, as |-> <<first.a>> \o rest.as]

\* lay the tree t out in fresh cells after h
Alloc(h, t) ==
    LET below == AllocSeq(h, t.kids)
    IN [h |-> Append(below.h, [t EXCEPT !.kids = below.as]),
        a |-> Len(below.h) + 1]

RECURSIVE Load(_, _)

\* the tree held at address a: what reflect.DeepEqual compares
Load(h, a) ==
    [h[a] EXCEPT !.kids = [i \in 1..Len(h[a].kids) |-> Load(h, h[a].kids[i])]]

RECURSIVE Reach(_, _)

\* the cells reachable from address a, a included
Reach(h, a) ==
    {a} \cup UNION {Reach(h, h[a].kids[i]) : i \in 1..Len(h[a].kids)}

----------------------------------------------------------------------------
(* Copies *)

RECURSIVE Assign(_, _), AssignSeq(_, _)

\* Go assignment of the cells as into fresh cells, one by one
AssignSeq(h, as) ==
    IF as = <<>> THEN [h |-> h, as |-> <<>>]
    ELSE LET first == Assign(h, Head(as))
             rest == AssignSeq(first.h, Tail(as))
         IN [h |-> rest.h, as |-> <<first.a>> \o rest.as]

\* Go assignment `x := *a` (reflect.New(t) followed by Elem().Set(v)): a fresh
\* cell holding the value of cell a.  Struct fields and array elements are
\* held inline and copied; pointer targets, slice elements, map tables and
\* interface payloads are referred to and shared.
Assign(h, a) ==
    IF h[a].k \in {"struct", "array"}
    THEN LET below == AssignSeq(h, h[a].kids)
         IN [h |-> Append(below.h, [h[a] EXCEPT !.kids = below.as]),
             a |-> Len(below.h) + 1]
    ELSE [h |-> Append(h, h[a]), a |-> Len(h) + 1]

\* reprint.This(value): a deep copy, structurally equal to the value at a and
\* sharing no cell with it
reprint_This(h, a) == Alloc(h, Load(h, a))

----------------------------------------------------------------------------
(* redact (src/rere.go:77-156).  st = [h, fault]: the heap, and whether a  *)
(* reflect call has panicked; a panic unwinds the whole call.              *)

\* slices.Contains(list, name)
Contains(list, name) == \E i \in 1..Len(list) : list[i] = name

\* the allow list never consulted
inAllowListNever(m, list, name) == FALSE

\* skip redacting fields and keys in the allow list when in allow mode
inAllowList(m, list, name) == m = allow /\ Contains(list, name)

\* the negation of the deny test lost
notInDenyListInverted(m, list, name) == m = deny /\ Contains(list, name)

\* skip redacting fields and keys not in the deny list when in deny mode
notInDenyList(m, list, name) == m = deny /\ ~Contains(list, name)

\* the pointer loop written as an `if`: one level only
PointerLoopOnce(h, a) ==
    IF a = 0 THEN 0
    ELSE IF h[a].k = "ptr"
         THEN (IF h[a].kids = <<>> THEN 0 ELSE h[a].kids[1])
         ELSE a

RECURSIVE PointerLoop(_, _)

\* for reflectedValueElem.Kind() == reflect.Pointer { ... = ....Elem() }
\* Elem() of a nil pointer is the invalid Value (0), whose Kind is Invalid.
PointerLoop(h, a) ==
    IF a = 0 THEN 0
    ELSE IF h[a].k = "ptr"
         THEN (IF h[a].kids = <<>> THEN 0 ELSE PointerLoop(h, h[a].kids[1]))
         ELSE a

\* the string case without its emptiness test
redactStringAlways(st, e) == [st EXCEPT !.h[e].s = redactedMessage]

\* the string case keeping the old content behind the message
redactStringPrefixing(st, e) ==
    IF st.h[e].s # <<>>
    THEN [st EXCEPT !.h[e].s = redactedMessage \o @]
    ELSE st

\* the string case writing a mask of the length of the string
redactStringMasking(st, e) ==
    IF st.h[e].s # <<>>
    THEN [st EXCEPT !.h[e].s = [i \in 1..Len(st.h[e].s) |-> 42]]
    ELSE st

\* case reflect.String: only redact non-empty string values
redactString(st, e) ==
    IF st.h[e].s # <<>>
    THEN [st EXCEPT !.h[e].s = redactedMessage]
    ELSE st

\* the byte-slice case without its emptiness test
redactByteSliceAlways(st, e) == [st EXCEPT !.h[e] = ByteSlice(redactedMessage)]

\* the byte-slice case with copy(): the message is written over the bytes
\* of the slice, as many as it has
redactByteSliceTruncating(st, e) ==
    IF Len(st.h[e].s) # 0
    THEN [st EXCEPT !.h[e] =
             ByteSlice([i \in 1..Len(st.h[e].s) |->
                           IF i <= Len(redactedMessage)
                           THEN redactedMessage[i] ELSE st.h[e].s[i]])]
    ELSE st

\* case reflect.Slice with element kind Uint8: only redact non-empty byte
\* slice values; Set replaces the slice header by that of a new []byte
redactByteSlice(st, e) ==
    IF Len(st.h[e].s) # 0
    THEN [st EXCEPT !.h[e] = ByteSlice(redactedMessage)]
    ELSE st

\* case reflect.Array with element kind Uint8: Set of a []byte Value into a
\* [N]uint8 panics (the types are not assignable)
redactByteArray(st, e) ==
    IF Len(st.h[e].s) # 0
    THEN [st EXCEPT !.fault = TRUE]
    ELSE st

\* the ignored kinds given their zero value
ignoreZeroing(st, e) == [st EXCEPT !.h[e].n = 0]

\* ignore other types: Bool, the numbers (a single uint8 included), Func,
\* Chan, ... have no case in the switch
ignore(st, e) == st

RECURSIVE redact(_, _, _, _), redactElements(_, _, _, _, _),
          redactInterface(_, _, _, _), redactMap(_, _, _, _, _),
          redactStruct(_, _, _, _, _)

RECURSIVE redactElementsUntilNil(_, _, _, _, _)

\* the element loop leaving at the first nil pointer
redactElementsUntilNil(st, e, i, m, list) ==
    IF st.fault \/ i > Len(st.h[e].kids) THEN st
    ELSE IF PointerLoop(st.h, st.h[e].kids[i]) = 0 THEN st
         ELSE redactElementsUntilNil(redact(st, st.h[e].kids[i], m, list),
                                     e, i + 1, m, list)

\* the element loop leaving after its first element
redactElementsFirstOnly(st, e, i, m, list) ==
    IF st.fault \/ i > Len(st.h[e].kids) \/ i > 1 THEN st
    ELSE redact(st, st.h[e].kids[i], m, list)

\* for i := 0; i < reflectedValueElem.Len(); i++ { redact(Index(i), ...) }
redactElements(st, e, i, m, list) ==
    IF st.fault \/ i > Len(st.h[e].kids) THEN st
    ELSE redactElements(redact(st, st.h[e].kids[i], m, list), e, i + 1, m, list)

\* the interface case with Set(redactedValue): the holder is given the
\* pointer to the redacted copy
redactInterfaceWrapping(st, e, m, list) ==
    IF st.h[e].kids = <<>>
    THEN [st EXCEPT !.fault = TRUE]
    ELSE LET redactedValue == Assign(st.h, st.h[e].kids[1])
             after == redact([st EXCEPT !.h = redactedValue.h],
                             redactedValue.a, m, list)
             pointer == Node("ptr", <<>>, 1, <<>>, <<redactedValue.a>>)
         IN IF after.fault THEN after
            ELSE [after EXCEPT !.h = [Append(after.h, pointer) EXCEPT
                                         ![e].kids = <<Len(after.h) + 1>>]]

\* case reflect.Interface
redactInterface(st, e, m, list) ==
    IF st.h[e].kids = <<>>
    THEN [st EXCEPT !.fault = TRUE]  \* element.Type() of the invalid Value
    ELSE LET redactedValue == Assign(st.h, st.h[e].kids[1])
             after == redact([st EXCEPT !.h = redactedValue.h],
                             redactedValue.a, m, list)
         IN IF after.fault THEN after
            ELSE [after EXCEPT !.h[e].kids = <<redactedValue.a>>]

RECURSIVE redactMapBreaking(_, _, _, _, _)

\* the map loop with `break` in place of `continue`
redactMapBreaking(st, t, i, m, list) ==
    IF st.fault \/ i > Len(st.h[t].names) THEN st
    ELSE LET keyName == st.h[t].names[i]
         IN IF inAllowList(m, list, keyName) \/ notInDenyList(m, list, keyName)
            THEN st
            ELSE LET redactedValue == Assign(st.h, st.h[t].kids[i])
                     after == redact([st EXCEPT !.h = redactedValue.h],
                                     redactedValue.a, m, list)
                     set == IF after.fault THEN after
                            ELSE [after EXCEPT !.h[t].kids[i] = redactedValue.a]
                 IN redactMapBreaking(set, t, i + 1, m, list)

\* case reflect.Map: for _, key := range reflectedValueElem.MapKeys(); t is
\* the map's table, i the position of the key
redactMap(st, t, i, m, list) ==
    IF st.fault \/ i > Len(st.h[t].names) THEN st
    ELSE LET keyName == st.h[t].names[i]
         IN IF inAllowList(m, list, keyName) \/ notInDenyList(m, list, keyName)
            THEN redactMap(st, t, i + 1, m, list)
            ELSE LET redactedValue == Assign(st.h, st.h[t].kids[i])
                     after == redact([st EXCEPT !.h = redactedValue.h],
                                     redactedValue.a, m, list)
                     set == IF after.fault THEN after
                            ELSE [after EXCEPT !.h[t].kids[i] = redactedValue.a]
                 IN redactMap(set, t, i + 1, m, list)

RECURSIVE redactStructLeavesOnly(_, _, _, _, _)

\* the struct case with the name test applied to string and []byte fields
\* only
redactStructLeavesOnly(st, e, i, m, list) ==
    IF st.fault \/ i > Len(st.h[e].kids) THEN st
    ELSE LET fieldName == st.h[e].names[i]
             field == st.h[e].kids[i]
         IN IF /\ st.h[field].k \in {"string", "bytes"}
               /\ inAllowList(m, list, fieldName) \/ notInDenyList(m, list, fieldName)
            THEN redactStructLeavesOnly(st, e, i + 1, m, list)
            ELSE redactStructLeavesOnly(redact(st, field, m, list),
                                        e, i + 1, m, list)

\* case reflect.Struct: for i := 0; i < reflectedValueElem.NumField(); i++
redactStruct(st, e, i, m, list) ==
    IF st.fault \/ i > Len(st.h[e].kids) THEN st
    ELSE LET fieldName == st.h[e].names[i]
         IN IF inAllowList(m, list, fieldName) \/ notInDenyList(m, list, fieldName)
            THEN redactStruct(st, e, i + 1, m, list)
            ELSE redactStruct(redact(st, st.h[e].kids[i], m, list),
                              e, i + 1, m, list)

\* redact(value, mode, fieldKeyNameList); the Value is given by the address
\* of the cell it denotes or points to
redact(st, v, m, list) ==
    IF st.fault THEN st
    ELSE LET reflectedValueElem == PointerLoop(st.h, v)
         IN IF reflectedValueElem = 0 THEN st
            ELSE LET kind == st.h[reflectedValueElem].k
                 IN CASE kind = "bytes" -> redactByteSlice(st, reflectedValueElem)
                      [] kind = "bytearray" -> redactByteArray(st, reflectedValueElem)
                      [] kind \in {"slice", "array"} ->
                            redactElements(st, reflectedValueElem, 1, m, list)
                      [] kind = "iface" ->
                            redactInterface(st, reflectedValueElem, m, list)
                      [] kind = "map" ->
                            IF st.h[reflectedValueElem].kids = <<>> THEN st
                            ELSE redactMap(st, st.h[reflectedValueElem].kids[1],
                                           1, m, list)
                      [] kind = "string" -> redactString(st, reflectedValueElem)
                      [] kind = "struct" ->
                            redactStruct(st, reflectedValueElem, 1, m, list)
                      [] OTHER -> ignore(st, reflectedValueElem)

----------------------------------------------------------------------------
(* The public operations *)

\* Redact leaving a bare string or byte slice alone in deny mode
RedactNamedOnlyWhenDenying(h, v, m, list) ==
    LET deepCopy == reprint_This(h, v)
        elem == PointerLoop(deepCopy.h, deepCopy.a)
        bare == elem # 0 /\ deepCopy.h[elem].k \in {"string", "bytes"}
        before == [h |-> deepCopy.h, fault |-> FALSE]
        after == IF m = deny /\ bare THEN before
                 ELSE redact(before, deepCopy.a, m, list)
    IN [h |-> after.h, fault |-> after.fault, a |-> deepCopy.a]

\* Redact with `deepCopy := value` in place of the deep copy
RedactWithoutDeepCopy(h, v, m, list) ==
    LET deepCopy == Assign(h, v)
        after == redact([h |-> deepCopy.h, fault |-> FALSE], deepCopy.a, m, list)
    IN [h |-> after.h, fault |-> after.fault, a |-> deepCopy.a]

\* deepCopy := reprint.This(value).(T); redact(reflect.ValueOf(&deepCopy),
\* m, list); return deepCopy.  The assertion .(T) of a nil interface value
\* (T is any, the value nil) panics.
Redact(h, v, m, list) ==
    LET deepCopy == reprint_This(h, v)
        asserted == [h |-> deepCopy.h,
                     fault |-> deepCopy.h[deepCopy.a] = NilInterface]
        after == redact(asserted, deepCopy.a, m, list)
    IN [h |-> after.h, fault |-> after.fault, a |-> deepCopy.a]

----------------------------------------------------------------------------
(* The values the callers pass: the types of the tests and examples *)

SeqsUpTo(S, n) == UNION {[1..k -> S] : k \in 0..n}

StringValues == {<<>>, hunter2}
ByteSliceValues == {NilByteSlice, ByteSlice(<<>>), ByteSlice(hello)}

\* type user struct { Username, Password string; Key []byte; IsAdmin bool }
user(u, p, k) ==
    Struct(<<Username, Password, Key, IsAdmin>>,
           <<String(u), String(p), k, Opaque(1)>>)

\* type user struct { ...; Groups []string }
userWithGroups(u, p, k, g) ==
    Struct(<<Username, Password, Key, IsAdmin, Groups>>,
           <<String(u), String(p), k, Opaque(1), g>>)

structWithByteField == Struct(<<Value>>, <<Opaque(1)>>)

structWithRedactedFields(u, p, q) ==
    Struct(<<Username, Password, password>>, <<String(u), String(p), String(q)>>)

structWithByteSlice(a, b) == Struct(<<Password, password>>, <<a, b>>)

structWithNestedStruct(x) == Struct(<<Nested>>, <<x>>)

complicatedStruct(xs) == Struct(<<NestedStructs>>, <<xs>>)

structWithNestedPointer(p) == Struct(<<Password>>, <<p>>)

structWithInterface(a, b) == Struct(<<Password, password>>, <<a, b>>)

RECURSIVE PointerChains(_, _)

\* the pointers of depth d over the values in S, the nil pointers included
PointerChains(S, d) ==
    IF d = 0 THEN S
    ELSE {NilPointer} \cup {Pointer(t) : t \in PointerChains(S, d - 1)}

\* a map[string]string with the keys ks (in order) and the values of f
StringMap(ks, f) == Map(ks, [i \in 1..Len(ks) |-> String(f[i])])

MapKeyLists ==
    {<<>>, <<Username>>, <<Password>>, <<Password, Username>>,
     <<Password, password>>, <<Password, Username, password>>}

Strings == {String(s) : s \in StringValues \cup {redactedMessage}}

ByteArrays == {ByteArray(<<>>), ByteArray(hello)}

StringSlices ==
    {NilSlice} \cup {Slice(ts) : ts \in SeqsUpTo({String(s) : s \in StringValues}, MaxSeqLen)}

StringArrays == {Array(<<String(s)>>) : s \in StringValues}

\* []*string and map[string]*string with nil and non-nil pointers
StringPointers == {NilPointer, Pointer(String(hunter2))}

StringPointerSlices == {Slice(ps) : ps \in [1..2 -> StringPointers]}

StringPointerMaps ==
    {Map(<<Password, Username>>, ps) : ps \in [1..2 -> StringPointers]}

\* a map[string][]string
SequenceMaps == {Map(<<Groups>>, <<Slice(<<String(hunter2)>>)>>)}

\* a bool, a number, a func or a chan on its own and under a key
OpaqueValues == {Opaque(1), Map(<<Password>>, <<Opaque(1)>>)}

StringMaps ==
    {NilMap} \cup UNION {{StringMap(ks, f) : f \in [1..Len(ks) -> StringValues]} :
                         ks \in MapKeyLists}

Users == {user(u, p, k) : u \in StringValues, p \in StringValues, k \in ByteSliceValues}

UsersWithGroups ==
    {userWithGroups(u, hunter2, ByteSlice(hello), g) :
        u \in StringValues, g \in {NilSlice, Slice(<<String(hunter2)>>)}}

RedactedFields ==
    {structWithRedactedFields(u, p, q) :
        u \in StringValues, p \in StringValues, q \in StringValues}

ByteSliceStructs ==
    {structWithByteSlice(a, b) : a \in ByteSliceValues, b \in ByteSliceValues}

NestedStructsOf(S) == {structWithNestedStruct(x) : x \in S}

SomeRedactedFields ==
    {structWithRedactedFields(hunter2, hunter2, hunter2),
     structWithRedactedFields(hunter2, <<>>, hunter2)}

\* maps from a name to a record
RecordMaps ==
    {Map(<<k>>, <<x>>) : k \in {Username, Password}, x \in SomeRedactedFields}

ComplicatedStructs ==
    {complicatedStruct(Slice(xs)) :
        xs \in SeqsUpTo(NestedStructsOf(SomeRedactedFields), MaxSeqLen)}

NestedPointers ==
    {structWithNestedPointer(p) : p \in PointerChains(Strings, MaxPtrDepth)}

InterfaceValues == {Interface(String(s)) : s \in StringValues}
                       \cup {Interface(ByteSlice(hello)), NilInterface,
                             Interface(NilPointer)}

Interfaces ==
    {structWithInterface(a, b) : a \in InterfaceValues, b \in InterfaceValues}

\* the values of the concrete types
Concrete ==
    Strings \cup ByteSliceValues \cup ByteArrays \cup {NilPointer}
        \cup OpaqueValues \cup RecordMaps \cup SequenceMaps
        \cup StringPointerSlices \cup StringPointerMaps
        \cup StringSlices \cup StringArrays
        \cup StringMaps \cup Users \cup UsersWithGroups
        \cup {structWithByteField} \cup RedactedFields
        \cup {Pointer(x) : x \in SomeRedactedFields}
        \cup ByteSliceStructs \cup NestedStructsOf(RedactedFields)
        \cup ComplicatedStructs \cup NestedPointers \cup Interfaces

\* the callers pass a value of a concrete type T, or (the tests) of type any
Inputs == Concrete \cup {Interface(x) : x \in Concrete} \cup {NilInterface}

ListNames == {Username, username, Password, password, Key}

\* lists of the examples and tests naming the other fields
ExampleLists ==
    {<<username, groups>>, <<Groups>>, <<Groups, Password>>, <<IsAdmin>>,
     <<Value>>, <<Nested>>, <<Nested, Username>>}

Lists == SeqsUpTo(ListNames, MaxListLen) \cup ExampleLists

----------------------------------------------------------------------------
(* The state machine: a caller holds a value and calls one operation on it *)

Init ==
    /\ originalInput \in Inputs
    /\ heap = Alloc(<<>>, originalInput).h
    /\ value = Alloc(<<>>, originalInput).a
    /\ pc = "ready"
    /\ mode = "none"
    /\ fieldKeyNameList = <<>>
    /\ result = 0
    /\ frames = <<>>

\* the call Redact...(value, list) and its return, or its panic
Call(m, list) ==
    LET r == Redact(heap, value, m, list)
    IN /\ heap' = r.h
       /\ pc' = IF r.fault THEN "panicked" ELSE "returned"
       /\ result' = IF r.fault THEN 0 ELSE r.a
       /\ mode' = m
       /\ fieldKeyNameList' = list
       /\ UNCHANGED <<value, originalInput, frames>>

RedactWithAllowList ==
    /\ pc = "ready"
    /\ \E allowList \in Lists : Call(allow, allowList)

RedactWithDenyList ==
    /\ pc = "ready"
    /\ \E denyList \in Lists : Call(deny, denyList)

Next == RedactWithAllowList \/ RedactWithDenyList

Spec == Init /\ [][Next]_vars

----------------------------------------------------------------------------
(* What the callers observe *)

returned == pc = "returned"

\* the value the caller holds now, and the value the call returned
inputNow == Load(heap, value)
output == Load(heap, result)

NonEmptyLeaf(t) == t.k \in {"string", "bytes"} /\ t.s # <<>>

\* the sentinel for a leaf: "REDACTED", or []byte("REDACTED")
Sentinel(t) ==
    IF t.k = "string" THEN String(redactedMessage) ELSE ByteSlice(redactedMessage)

RECURSIVE HasNonEmptyLeaf(_)

HasNonEmptyLeaf(t) ==
    NonEmptyLeaf(t) \/ \E i \in 1..Len(t.kids) : HasNonEmptyLeaf(t.kids[i])

RECURSIVE EveryLeafRedacted(_)

\* t with every non-empty string and byte-slice leaf replaced by the sentinel
EveryLeafRedacted(t) ==
    IF NonEmptyLeaf(t) THEN Sentinel(t)
    ELSE [t EXCEPT !.kids = [i \in 1..Len(t.kids) |-> EveryLeafRedacted(t.kids[i])]]

RECURSIVE UnnamedLeavesRedacted(_)

\* t with the sentinel in place of every non-empty string and byte-slice leaf
\* that is not under a struct field or a map key
UnnamedLeavesRedacted(t) ==
    IF NonEmptyLeaf(t) THEN Sentinel(t)
    ELSE IF t.k \in {"ptr", "slice", "array", "iface"}
         THEN [t EXCEPT !.kids =
                  [i \in 1..Len(t.kids) |-> UnnamedLeavesRedacted(t.kids[i])]]
         ELSE t

----------------------------------------------------------------------------
(* C1: after RedactWithAllowList or RedactWithDenyList returns, the value  *)
(* the caller passed, with everything reachable from it, is structurally   *)
(* equal to what it was before the call, and the returned value lies in    *)
(* storage distinct from it: no cell is reachable from both.               *)
C1_NonMutation ==
    returned =>
        /\ inputNow = originalInput
        /\ result # value
        /\ Reach(heap, result) \cap Reach(heap, value) = {}

\* a call returned a redacted copy of a value reached through a pointer
C1_Witness ==
    /\ returned
    /\ originalInput.k = "ptr"
    /\ output # originalInput
    /\ output = EveryLeafRedacted(originalInput)

(* C2: RedactWithAllowList with an empty list replaces every non-empty     *)
(* string leaf by "REDACTED" and every non-empty byte-slice leaf by the    *)
(* bytes of "REDACTED", wherever the leaf sits, and changes nothing else.  *)
C2_AllowListDefault ==
    (returned /\ mode = allow /\ fieldKeyNameList = <<>>) =>
        output = EveryLeafRedacted(originalInput)

\* the default redaction reached a string behind two pointers in a field
C2_Witness ==
    /\ returned /\ mode = allow /\ fieldKeyNameList = <<>>
    /\ originalInput = structWithNestedPointer(Pointer(Pointer(String(hunter2))))
    /\ output = structWithNestedPointer(Pointer(Pointer(String(redactedMessage))))

----------------------------------------------------------------------------
(* Name matching as the specification and the readme state it: a list      *)
(* entry matches a field name or key case-insensitively (strings.EqualFold *)
(* on ASCII names).                                                        *)

ToLower(b) == IF b \in 65..90 THEN b + 32 ELSE b

Fold(name) == [i \in 1..Len(name) |-> ToLower(name[i])]

EqualFold(a, b) == Fold(a) = Fold(b)

Matches(list, name) == \E i \in 1..Len(list) : EqualFold(list[i], name)

\* the match predicate of the two policies
ShouldRedact(m, list, name) ==
    IF m = allow THEN ~Matches(list, name) ELSE Matches(list, name)

\* a record whose fields hold strings, byte slices and opaque leaves
FlatRecord(t) ==
    /\ t.k = "struct"
    /\ \A i \in 1..Len(t.kids) : t.kids[i].k \in {"string", "bytes", "opaque"}

\* a non-nil map with string values
StringValuedMap(t) ==
    /\ t.k = "map" /\ t.kids # <<>>
    /\ \A i \in 1..Len(t.kids[1].kids) : t.kids[1].kids[i].k = "string"

\* the named leaves of a flat record or table t, each redacted or kept as
\* the predicate redacts(name) says
NamedLeavesRedacted(t, redacts(_)) ==
    [t EXCEPT !.kids =
        [i \in 1..Len(t.kids) |->
            IF NonEmptyLeaf(t.kids[i]) /\ redacts(t.names[i])
            THEN Sentinel(t.kids[i]) ELSE t.kids[i]]]

(* C4: for a flat record, RedactWithAllowList leaves unchanged exactly the *)
(* string and byte-slice fields whose name matches an entry of the list,   *)
(* sets every other non-empty string field to "REDACTED" and every other   *)
(* non-empty byte-slice field to the bytes of "REDACTED", and leaves the   *)
(* opaque fields unchanged.                                                *)
C4_FlatRecordAllowList ==
    (returned /\ mode = allow /\ FlatRecord(originalInput)) =>
        LET redacts(name) == ShouldRedact(allow, fieldKeyNameList, name)
        IN output = NamedLeavesRedacted(originalInput, redacts)

(* C4 for the lists whose entries match no name in another letter case     *)
C4_FlatRecordAllowList_SameCase ==
    (/\ returned /\ mode = allow /\ FlatRecord(originalInput)
     /\ \A i \in 1..Len(originalInput.names) :
           Matches(fieldKeyNameList, originalInput.names[i])
               => Contains(fieldKeyNameList, originalInput.names[i])) =>
        LET redacts(name) == ShouldRedact(allow, fieldKeyNameList, name)
        IN output = NamedLeavesRedacted(originalInput, redacts)

(* C5: for a flat record and any split of its field names into two         *)
(* disjoint lists A and D that together cover all names,                   *)
(* RedactWithDenyList(v, D) redacts only the fields named in D and returns *)
(* the same value as RedactWithAllowList(v, A).                            *)
Names(list) == {list[i] : i \in 1..Len(list)}

\* the value Redact...(t, list) returns for a caller holding t
Returns(t, m, list) ==
    LET caller == Alloc(<<>>, t)
        r == Redact(caller.h, caller.a, m, list)
    IN Load(r.h, r.a)

C6_StringMaps ==
    (returned /\ StringValuedMap(originalInput)) =>
        LET redacts(name) == ShouldRedact(mode, fieldKeyNameList, name)
        IN /\ output.kids[1].names = originalInput.kids[1].names
           /\ output = [originalInput EXCEPT
                           !.kids[1] = NamedLeavesRedacted(@, redacts)]

(* C6 for the lists whose entries match no key in another letter case      *)
C6_StringMaps_SameCase ==
    (/\ returned /\ StringValuedMap(originalInput)
     /\ \A i \in 1..Len(originalInput.kids[1].names) :
           Matches(fieldKeyNameList, originalInput.kids[1].names[i])
               => Contains(fieldKeyNameList, originalInput.kids[1].names[i])) =>
        LET redacts(name) == ShouldRedact(mode, fieldKeyNameList, name)
        IN /\ output.kids[1].names = originalInput.kids[1].names
           /\ output = [originalInput EXCEPT
                           !.kids[1] = NamedLeavesRedacted(@, redacts)]

(* C7: under both policies a list entry matches a struct field name or map *)
(* key that differs from it only in letter case: the leaf under that name  *)
(* is kept by RedactWithAllowList and redacted by RedactWithDenyList.      *)
\* the leaves named in t are treated in r as the entries matching their
\* names in another letter case require
FoldedEntriesMatch(t, r) ==
    (FlatRecord(t) \/ t.k = "table") =>
        \A i \in 1..Len(t.names) :
            (/\ NonEmptyLeaf(t.kids[i])
             /\ Matches(fieldKeyNameList, t.names[i])
             /\ ~Contains(fieldKeyNameList, t.names[i])) =>
                IF mode = allow THEN r.kids[i] = t.kids[i]
                ELSE r.kids[i] = Sentinel(t.kids[i])

C7_CaseInsensitiveMatching ==
    returned =>
        /\ FoldedEntriesMatch(originalInput, output)
        /\ \A j \in 1..Len(originalInput.kids) :
              FoldedEntriesMatch(originalInput.kids[j], output.kids[j])

----------------------------------------------------------------------------
RECURSIVE EmptyLeavesKept(_, _)

\* every empty string, empty byte slice and nil byte slice of t is the same
\* in r, position by position
EmptyLeavesKept(t, r) ==
    IF t.k \in {"string", "bytes"}
    THEN t.s = <<>> => r = t
    ELSE /\ Len(r.kids) = Len(t.kids)
         /\ \A i \in 1..Len(t.kids) : EmptyLeavesKept(t.kids[i], r.kids[i])

(* C8: an empty string leaf, an empty byte slice and a nil byte slice are  *)
(* never changed by either operation, whatever the list contains and       *)
(* whether or not the name of the leaf's location matches it.              *)
C8_EmptyValueExemption ==
    returned => EmptyLeavesKept(originalInput, output)

\* an empty and a nil byte slice came back as they were from a call that
\* redacted their string siblings
C8_Witness ==
    /\ returned /\ mode = allow /\ fieldKeyNameList = <<>>
    /\ \/ originalInput = user(hunter2, hunter2, NilByteSlice)
       \/ originalInput = user(hunter2, <<>>, ByteSlice(<<>>))
    /\ output.kids[3] = originalInput.kids[3]
    /\ output.kids[1] = String(redactedMessage)

\* a top-level string or byte slice, as a value of its own type or of type any
Bare(t) ==
    \/ t.k \in {"string", "bytes"}
    \/ t.k = "iface" /\ t.kids # <<>> /\ t.kids[1].k \in {"string", "bytes"}

----------------------------------------------------------------------------
\* a top-level []string or string array, as a value of its own type or of
\* type any
StringSequence(t) ==
    \/ t.k \in {"slice", "array"} /\ \A i \in 1..Len(t.kids) : t.kids[i].k = "string"
    \/ /\ t.k = "iface" /\ t.kids # <<>> /\ t.kids[1].k \in {"slice", "array"}
       /\ \A i \in 1..Len(t.kids[1].kids) : t.kids[1].kids[i].k = "string"

(* C11: RedactWithAllowList provided a non-empty top-level string or       *)
(* []byte returns the sentinel whatever the allow list holds, and so does  *)
(* each non-empty element of a top-level []string or string array.         *)
C11_BareValueAllowList ==
    (/\ returned /\ mode = allow
     /\ Bare(originalInput) \/ StringSequence(originalInput)) =>
        output = EveryLeafRedacted(originalInput)

\* both elements of a bare []string came back redacted under an allow list
\* of two names
C11_Witness ==
    /\ returned /\ mode = allow
    /\ fieldKeyNameList = <<Username, Password>>
    /\ originalInput = Slice(<<String(hunter2), String(hunter2)>>)
    /\ output = Slice(<<String(redactedMessage), String(redactedMessage)>>)
----------------------------------------------------------------------------
\* a []string
StringSlice(t) ==
    t.k = "slice" /\ \A i \in 1..Len(t.kids) : t.kids[i].k = "string"

\* the []string fields of the record t are, in r, redacted in every element
\* or left as they were, as the match of the field's name says
SequencesFollowName(t, r) ==
    \A i \in 1..Len(t.kids) :
        StringSlice(t.kids[i]) =>
            r.kids[i] = IF ShouldRedact(mode, fieldKeyNameList, t.names[i])
                        THEN EveryLeafRedacted(t.kids[i])
                        ELSE t.kids[i]

(* C12: the elements of a []string field are governed by the field's name: *)
(* RedactWithAllowList leaves them unredacted when the name matches the    *)
(* allow list and redacts them otherwise; RedactWithDenyList redacts them  *)
(* when the name matches the deny list and leaves them unchanged otherwise.*)
C12_NamedStringSequence ==
    (returned /\ originalInput.k = "struct") =>
        SequencesFollowName(originalInput, output)

(* C12 for the lists whose entries match no field name in another letter   *)
(* case                                                                    *)
C12_NamedStringSequence_SameCase ==
    (/\ returned /\ originalInput.k = "struct"
     /\ \A i \in 1..Len(originalInput.names) :
           Matches(fieldKeyNameList, originalInput.names[i])
               => Contains(fieldKeyNameList, originalInput.names[i])) =>
        SequencesFollowName(originalInput, output)
----------------------------------------------------------------------------
\* whether Redact...(t, list) panics for a caller holding t
Panics(t, m, list) ==
    LET caller == Alloc(<<>>, t)
    IN Redact(caller.h, caller.a, m, list).fault

(* C13: for each operation, every input v and every list L, the operation  *)
(* applied with L to the value it returned for v and L returns a value     *)
(* structurally equal to that value.                                       *)
C13_Idempotence ==
    returned =>
        /\ ~Panics(output, mode, fieldKeyNameList)
        /\ Returns(output, mode, fieldKeyNameList) = output

\* a user redacted under the allow list [Username] is returned as it is by
\* a second call with that list
C13_Witness ==
    /\ returned /\ mode = allow /\ fieldKeyNameList = <<Username>>
    /\ originalInput = user(hunter2, hunter2, ByteSlice(hello))
    /\ output = user(hunter2, redactedMessage, ByteSlice(redactedMessage))
    /\ Returns(output, allow, <<Username>>) = output
----------------------------------------------------------------------------
RECURSIVE OpaqueLeavesKept(_, _)

\* every opaque leaf of t is the same in r, position by position
OpaqueLeavesKept(t, r) ==
    IF t.k = "opaque" THEN r = t
    ELSE /\ Len(r.kids) = Len(t.kids)
         /\ \A i \in 1..Len(t.kids) : OpaqueLeavesKept(t.kids[i], r.kids[i])

(* C14: a bool, a number (a single byte that is not an element of a byte   *)
(* sequence included), a function or a channel has the same value in the   *)
(* result as in the input under both policies, also when its field or key  *)
(* name is in the deny list or absent from the allow list.                 *)
C14_OpaqueLeaves ==
    returned => OpaqueLeavesKept(originalInput, output)

\* the bool IsAdmin named by the deny list came back as it was, and so did
\* a number under a key absent from the allow list
C14_Witness ==
    /\ returned
    /\ \/ /\ mode = deny /\ fieldKeyNameList = <<IsAdmin>>
          /\ originalInput = user(hunter2, hunter2, ByteSlice(hello))
          /\ output = originalInput
       \/ /\ mode = allow /\ fieldKeyNameList = <<Username>>
          /\ originalInput = Map(<<Password>>, <<Opaque(1)>>)
          /\ output = originalInput
----------------------------------------------------------------------------
panicked == pc = "panicked"

(* C15: for every acyclic value built from strings, byte slices, byte      *)
(* arrays, opaque leaves, pointers (nil included), slices, arrays, maps,   *)
(* structs and interface holders (holders with no payload included), the   *)
(* redaction pass of either operation completes and returns a value: no    *)
(* call panics.                                                            *)
C15_NoTraversalFaults == ~panicked
----------------------------------------------------------------------------
(* C16: either operation called with a nil top-level value (a nil pointer, *)
(* or a nil value of type any) returns that value unchanged and does not   *)
(* panic.                                                                  *)
C16_NilTopLevel ==
    (originalInput \in {NilPointer, NilInterface} /\ pc # "ready") =>
        returned /\ output = originalInput

(* C16 for the nil pointer alone                                           *)
C16_NilTopLevel_Pointer ==
    (originalInput = NilPointer /\ pc # "ready") =>
        returned /\ output = originalInput
----------------------------------------------------------------------------
(* Concurrent calls (the parallel subtests of src/rere_test.go:272-286).   *)
(* Every call runs in its own goroutine on its own input; the calls share  *)
(* the heap.  A call is taken step by step: the deep copy, then the pass   *)
(* of redact one visit at a time, then the return.  frames[p] holds the    *)
(* locals of call p: deepCopy, and the visits of redact still to be made,  *)
(* in the order redact makes them.  pc, value, originalInput, mode,        *)
(* fieldKeyNameList and result are here indexed by the call.               *)

Calls == 1..NumCalls

\* the visits: redact(a); the body of the map loop for key i of table a;
\* the Set / SetMapIndex of the redacted copy c into kid i of cell a
Visit(a) == [op |-> "redact", a |-> a, i |-> 0, c |-> 0]
VisitKey(t, i) == [op |-> "key", a |-> t, i |-> i, c |-> 0]
VisitSet(e, i, c) == [op |-> "set", a |-> e, i |-> i, c |-> c]

RECURSIVE namedVisits(_, _, _, _, _)

\* the fields of the struct (keys of the table) e, from the i-th on, that
\* the name test does not skip, as visits
namedVisits(h, e, i, m, list) ==
    IF i > Len(h[e].kids) THEN <<>>
    ELSE LET name == h[e].names[i]
             rest == namedVisits(h, e, i + 1, m, list)
         IN IF inAllowList(m, list, name) \/ notInDenyList(m, list, name)
            THEN rest
            ELSE IF h[e].k = "table"
                 THEN <<VisitKey(e, i)>> \o rest
                 ELSE <<Visit(h[e].kids[i])>> \o rest

ConcurrentInputs ==
    <<structWithInterface(Interface(String(hunter2)), Interface(ByteSlice(hello))),
      StringMap(<<Password, Username>>, <<hunter2, hunter2>>),
      Pointer(Slice(<<String(hunter2)>>))>>

\* the calls are alike: their inputs are taken in the order of the table
InputChoices ==
    {c \in [Calls -> 1..Len(ConcurrentInputs)] :
        \A p \in Calls : \A q \in Calls : p < q => c[p] <= c[q]}

ConcurrentLists == {<<Password>>}

RECURSIVE AllocAll(_, _, _)

\* the inputs of the calls from the p-th on laid out after h, each with its
\* root in the last of its cells
AllocAll(h, inputs, p) ==
    IF p > NumCalls THEN [h |-> h, as |-> <<>>]
    ELSE LET first == Alloc(h, inputs[p])
             rest == AllocAll(first.h, inputs, p + 1)
         IN CASE first.a = Len(first.h) ->
                 [h |-> rest.h, as |-> <<first.a>> \o rest.as]

InitConcurrent ==
    /\ originalInput \in
          {[p \in Calls |-> ConcurrentInputs[c[p]]] : c \in InputChoices}
    /\ heap = AllocAll(<<>>, originalInput, 1).h
    /\ value = AllocAll(<<>>, originalInput, 1).as
    /\ pc = [p \in Calls |-> "ready"]
    /\ mode = [p \in Calls |-> "none"]
    /\ fieldKeyNameList = [p \in Calls |-> <<>>]
    /\ result = [p \in Calls |-> 0]
    /\ frames = [p \in Calls |-> [deepCopy |-> 0, visits |-> <<>>]]

\* the copy owned by the shared cache of an equal input, when there is one
deepCopyShared(p) ==
    IF \E q \in Calls : frames[q].deepCopy # 0 /\ originalInput[q] = originalInput[p]
    THEN [h |-> heap,
          a |-> frames[CHOOSE q \in Calls :
                          frames[q].deepCopy # 0
                              /\ originalInput[q] = originalInput[p]].deepCopy]
    ELSE reprint_This(heap, value[p])

\* deepCopy := value: the copy a Go assignment makes
deepCopyShallow(p) == Assign(heap, value[p])

\* deepCopy := reprint.This(value).(T): a local of the call
deepCopyOf(p) == reprint_This(heap, value[p])

\* call p enters the operation and takes its deep copy
Enter(p, m, list) ==
    /\ pc[p] = "ready"
    /\ LET deepCopy == deepCopyOf(p)
       IN /\ heap' = deepCopy.h
          /\ frames' = [frames EXCEPT ![p] = [deepCopy |-> deepCopy.a,
                                              visits |-> <<Visit(deepCopy.a)>>]]
          /\ pc' = [pc EXCEPT ![p] =
                       IF deepCopy.h[deepCopy.a] = NilInterface
                       THEN "panicked" ELSE "redacting"]
    /\ mode' = [mode EXCEPT ![p] = m]
    /\ fieldKeyNameList' = [fieldKeyNameList EXCEPT ![p] = list]
    /\ UNCHANGED <<value, originalInput, result>>

ConcurrentRedactWithAllowList(p) ==
    \E allowList \in ConcurrentLists : Enter(p, allow, allowList)

ConcurrentRedactWithDenyList(p) ==
    \E denyList \in ConcurrentLists : Enter(p, deny, denyList)

\* what the visit at the head of the visits of call p does to the heap, and
\* the visits it leaves: one pass through the body of redact
afterVisit(p) ==
    LET visit == Head(frames[p].visits)
        rest == Tail(frames[p].visits)
        m == mode[p]
        list == fieldKeyNameList[p]
        e == IF visit.op = "redact" THEN PointerLoop(heap, visit.a) ELSE 0
        kind == IF e = 0 THEN "invalid" ELSE heap[e].k
        kids == IF e = 0 THEN <<>> ELSE heap[e].kids
    IN CASE visit.op = "set" ->
              [h |-> [heap EXCEPT ![visit.a].kids[visit.i] = visit.c],
               fault |-> FALSE, visits |-> rest]
         [] visit.op = "key" ->
              LET redactedValue == Assign(heap, heap[visit.a].kids[visit.i])
              IN [h |-> redactedValue.h, fault |-> FALSE,
                  visits |-> <<Visit(redactedValue.a),
                               VisitSet(visit.a, visit.i, redactedValue.a)>>
                             \o rest]
         [] visit.op = "redact" /\ kind \in {"slice", "array"} ->
              [h |-> heap, fault |-> FALSE,
               visits |-> [i \in 1..Len(kids) |-> Visit(kids[i])] \o rest]
         [] visit.op = "redact" /\ kind = "iface" ->
              IF kids = <<>>
              THEN [h |-> heap, fault |-> TRUE, visits |-> rest]
              ELSE LET redactedValue == Assign(heap, kids[1])
                   IN [h |-> redactedValue.h, fault |-> FALSE,
                       visits |-> <<Visit(redactedValue.a),
                                    VisitSet(e, 1, redactedValue.a)>> \o rest]
         [] visit.op = "redact" /\ kind = "map" ->
              [h |-> heap, fault |-> FALSE,
               visits |-> IF kids = <<>> THEN rest
                          ELSE namedVisits(heap, kids[1], 1, m, list) \o rest]
         [] visit.op = "redact" /\ kind = "struct" ->
              [h |-> heap, fault |-> FALSE,
               visits |-> namedVisits(heap, e, 1, m, list) \o rest]
         [] visit.op = "redact" /\ kind = "invalid" ->
              [h |-> heap, fault |-> FALSE, visits |-> rest]
         [] OTHER ->
              LET st == redact([h |-> heap, fault |-> FALSE], e, m, list)
              IN [h |-> st.h, fault |-> st.fault, visits |-> rest]

\* the visit made again: the pointer loop without its Elem()
RedactStepRevisiting(p) ==
    /\ pc[p] = "redacting"
    /\ frames[p].visits # <<>>
    /\ UNCHANGED vars

\* call p makes the next visit of its pass
RedactStep(p) ==
    /\ pc[p] = "redacting"
    /\ frames[p].visits # <<>>
    /\ LET after == afterVisit(p)
       IN /\ heap' = after.h
          /\ frames' = [frames EXCEPT ![p].visits = after.visits]
          /\ pc' = [pc EXCEPT ![p] = IF after.fault THEN "panicked" ELSE @]
    /\ UNCHANGED <<value, originalInput, mode, fieldKeyNameList, result>>

\* return deepCopy
Return(p) ==
    /\ pc[p] = "redacting"
    /\ frames[p].visits = <<>>
    /\ result' = [result EXCEPT ![p] = frames[p].deepCopy]
    /\ pc' = [pc EXCEPT ![p] = "returned"]
    /\ UNCHANGED <<heap, value, originalInput, mode, fieldKeyNameList, frames>>

NextConcurrent ==
    \E p \in Calls :
        \/ ConcurrentRedactWithAllowList(p)
        \/ ConcurrentRedactWithDenyList(p)
        \/ RedactStep(p)
        \/ Return(p)

SpecConcurrent == InitConcurrent /\ [][NextConcurrent]_vars

\* the cells call p owns: those of its deep copy and of the copies it has
\* made and not yet set
Owned(p) ==
    LET visits == frames[p].visits
    IN (IF frames[p].deepCopy = 0 THEN {} ELSE Reach(heap, frames[p].deepCopy))
          \cup UNION {Reach(heap, visits[i].a) : i \in 1..Len(visits)}

(* C17: when the calls run concurrently on independent inputs, under every *)
(* interleaving of their copy and rewrite steps each call returns the      *)
(* result it returns when run alone, every input is left unchanged, and no *)
(* call holds a cell of another call or of an input.                       *)
C17_ConcurrentCalls ==
    \A p \in Calls :
        /\ Load(heap, value[p]) = originalInput[p]
        /\ pc[p] # "panicked"
        /\ pc[p] = "returned" =>
              Load(heap, result[p]) =
                  Returns(originalInput[p], mode[p], fieldKeyNameList[p])
        /\ \A q \in Calls :
              /\ Owned(p) \cap Reach(heap, value[q]) = {}
              /\ q # p => Owned(p) \cap Owned(q) = {}

\* two calls on equal inputs returned, the first having copied before and
\* rewritten after the second took its copy; the first, allowing Password,
\* redacted the other payload, the second, denying Password, redacted that
\* payload alone
C17_Witness ==
    /\ pc[1] = "returned" /\ pc[2] = "returned"
    /\ mode[1] = allow /\ mode[2] = deny
    /\ fieldKeyNameList[1] = <<Password>> /\ fieldKeyNameList[2] = <<Password>>
    /\ originalInput[1] = structWithInterface(Interface(String(hunter2)),
                                              Interface(ByteSlice(hello)))
    /\ originalInput[2] = originalInput[1]
    /\ result[1] < result[2]
    /\ result[2] < heap[heap[result[1]].kids[2]].kids[1]
    /\ Load(heap, result[1]) =
          structWithInterface(Interface(String(hunter2)),
                              Interface(ByteSlice(redactedMessage)))
    /\ Load(heap, result[2]) =
          structWithInterface(Interface(String(redactedMessage)),
                              Interface(ByteSlice(hello)))
----------------------------------------------------------------------------
RECURSIVE Structure(_)

\* a record, a map, or a pointer to or a sequence of such
Structure(t) ==
    \/ t.k \in {"struct", "map"}
    \/ /\ t.k \in {"ptr", "slice", "array"} /\ t.kids # <<>>
       /\ \A i \in 1..Len(t.kids) : Structure(t.kids[i])

(* C18: under either policy a record field whose own value is a structure  *)
(* (record, pointer to record, sequence of records, map) is recursed into  *)
(* whatever the field's name: the value under the field is, in the result, *)
(* what the operation makes of that value with the same list.              *)
C18_FieldNameKeepsTraversal ==
    (returned /\ originalInput.k = "struct") =>
        \A i \in 1..Len(originalInput.kids) :
            Structure(originalInput.kids[i]) =>
                output.kids[i] =
                    Returns(originalInput.kids[i], mode, fieldKeyNameList)
----------------------------------------------------------------------------
(* C19: for every key of a map, whatever the outcome of matching the key   *)
(* against the list, a structure under the key is recursed into and its    *)
(* own fields and keys are judged on their names: the value under the key  *)
(* is, in the result, what the operation makes of that value with the same *)
(* list.                                                                   *)
C19_MapKeyKeepsTraversal ==
    (returned /\ originalInput.k = "map" /\ originalInput.kids # <<>>) =>
        LET table == originalInput.kids[1]
        IN \A i \in 1..Len(table.kids) :
              Structure(table.kids[i]) =>
                  output.kids[1].kids[i] =
                      Returns(table.kids[i], mode, fieldKeyNameList)
----------------------------------------------------------------------------
\* a record, or a map that is not nil
Named(t) == t.k = "struct" \/ (t.k = "map" /\ t.kids # <<>>)

\* the node holding the names: the record itself, the table of the map
Holder(t) == IF t.k = "map" THEN t.kids[1] ELSE t

(* C20 as stated: in allow mode the elements of a []string are each        *)
(* redacted by the default rule even when the sequence is held by a field  *)
(* or key whose name matches the allow list.                               *)
C20_SequenceUnderName_Stated ==
    (returned /\ mode = allow /\ Named(originalInput)) =>
        \A i \in 1..Len(Holder(originalInput).kids) :
            StringSlice(Holder(originalInput).kids[i]) =>
                Holder(output).kids[i] =
                    EveryLeafRedacted(Holder(originalInput).kids[i])

(* C20 as amended: in allow mode a []string held by a field or key whose   *)
(* name is an entry of the allow list is left unchanged, elements          *)
(* included: the name protects the whole sequence; when no entry matches   *)
(* the name, each non-empty element is redacted.                           *)
C20_SequenceUnderName ==
    (returned /\ mode = allow /\ Named(originalInput)) =>
        \A i \in 1..Len(Holder(originalInput).kids) :
            LET name == Holder(originalInput).names[i]
                held == Holder(originalInput).kids[i]
            IN StringSlice(held) =>
                  /\ Contains(fieldKeyNameList, name) =>
                        Holder(output).kids[i] = held
                  /\ ~Matches(fieldKeyNameList, name) =>
                        Holder(output).kids[i] = EveryLeafRedacted(held)

\* with Groups in the allow list the group of a user came back as it was,
\* next to a redacted password
C20_Witness ==
    /\ returned /\ mode = allow /\ fieldKeyNameList = <<Groups>>
    /\ originalInput =
          userWithGroups(hunter2, hunter2, ByteSlice(hello), Slice(<<String(hunter2)>>))
    /\ output.kids[5] = Slice(<<String(hunter2)>>)
    /\ output.kids[2] = String(redactedMessage)

----------------------------------------------------------------------------
RECURSIVE LeafBehind(_)

\* a string or byte slice behind one or more pointers or interface holders
LeafBehind(t) ==
    /\ t.k \in {"ptr", "iface"} /\ t.kids # <<>>
    /\ t.kids[1].k \in {"string", "bytes"} \/ LeafBehind(t.kids[1])

\* the leaves behind the fields of the record t are, in r, redacted or left
\* as they were, as the match of the field's name says
IndirectLeavesFollowName(t, r) ==
    \A i \in 1..Len(t.kids) :
        LeafBehind(t.kids[i]) =>
            r.kids[i] = IF ShouldRedact(mode, fieldKeyNameList, t.names[i])
                        THEN EveryLeafRedacted(t.kids[i])
                        ELSE t.kids[i]

(* C21: a string or byte-slice leaf reached from a named field through one *)
(* or more pointers or through an interface holder is governed by that     *)
(* field's name like a direct leaf: left unchanged when the name matches   *)
(* the allow list (allow mode) or is absent from the deny list (deny       *)
(* mode), redacted otherwise.                                              *)
C21_NameThroughIndirection ==
    (returned /\ originalInput.k = "struct") =>
        IndirectLeavesFollowName(originalInput, output)

(* C21 for the lists whose entries match no field name in another letter   *)
(* case                                                                    *)
C21_NameThroughIndirection_SameCase ==
    (/\ returned /\ originalInput.k = "struct"
     /\ \A i \in 1..Len(originalInput.names) :
           Matches(fieldKeyNameList, originalInput.names[i])
               => Contains(fieldKeyNameList, originalInput.names[i])) =>
        IndirectLeavesFollowName(originalInput, output)

----------------------------------------------------------------------------
\* the cells reachable from the values the callers hold
OriginalCells == UNION {Reach(heap, value[q]) : q \in Calls}

(* C22: within a call the deep copy is complete before the first leaf is   *)
(* rewritten, and every write of the rewrite pass (string set, byte-slice  *)
(* set, map-entry set, holder set) goes to a cell of the copy, never to a  *)
(* cell reachable from the caller's original value: a step changes an      *)
(* existing cell only if a call that has taken its copy owns the cell and  *)
(* no original value reaches it.                                           *)
C22_CopyBeforeRewrite ==
    [][/\ Len(heap') >= Len(heap)
       /\ \A a \in 1..Len(heap) :
             heap'[a] # heap[a] =>
                 /\ \E p \in Calls : pc[p] = "redacting" /\ a \in Owned(p)
                 /\ a \notin OriginalCells]_vars

\* a call that has not returned yet has set a redacted map entry in its
\* copy, and the value of its caller is as it was
C22_Witness ==
    /\ pc[1] = "redacting"
    /\ originalInput[1].k = "map"
    /\ Load(heap, frames[1].deepCopy) # originalInput[1]
    /\ Load(heap, value[1]) = originalInput[1]

----------------------------------------------------------------------------
(* C23: a non-empty byte slice or fixed-length byte array in a redacting    *)
(* context has its whole content replaced by the bytes of "REDACTED", and  *)
(* the call completes without a panic whatever the length of the sequence. *)
C23_ByteSequencesAreLeaves ==
    (/\ pc # "ready"
     /\ originalInput.k \in {"bytes", "bytearray"}
     /\ originalInput.s # <<>>) =>
        returned /\ output.s = redactedMessage

(* C23 for the byte slices alone                                           *)
C23_ByteSequencesAreLeaves_Slices ==
    (pc # "ready" /\ originalInput.k = "bytes" /\ originalInput.s # <<>>) =>
        returned /\ output = ByteSlice(redactedMessage)

----------------------------------------------------------------------------
RECURSIVE NilBranch(_)

\* a nil pointer, at any level of a pointer chain or in an interface holder
NilBranch(t) ==
    \/ t.k = "ptr" /\ (t.kids = <<>> \/ NilBranch(t.kids[1]))
    \/ t.k = "iface" /\ t.kids # <<>> /\ NilBranch(t.kids[1])

\* a record, a sequence, or a map that is not nil
Container(t) == t.k \in {"struct", "slice", "array"} \/ Named(t)

RemoveAt(seq, i) == SubSeq(seq, 1, i - 1) \o SubSeq(seq, i + 1, Len(seq))

\* the node n without its i-th field, element or entry
WithoutIn(n, i) ==
    [n EXCEPT !.kids = RemoveAt(@, i),
              !.names = IF @ = <<>> THEN @ ELSE RemoveAt(@, i)]

\* the container t without its i-th field, element or entry
Without(t, i) ==
    IF t.k = "map" THEN [t EXCEPT !.kids[1] = WithoutIn(@, i)]
    ELSE WithoutIn(t, i)

(* C24: a nil pointer met during traversal (struct field, map value,       *)
(* sequence element, any level of a pointer chain) ends the traversal of   *)
(* that branch: the branch is the same in the result, the pointer still    *)
(* nil, and the sibling branches are what the operation makes of the value *)
(* without the nil branch.                                                 *)
C24_NilPointerInside ==
    (returned /\ Container(originalInput)) =>
        \A i \in 1..Len(Holder(originalInput).kids) :
            NilBranch(Holder(originalInput).kids[i]) =>
                /\ Holder(output).kids[i] = Holder(originalInput).kids[i]
                /\ Without(output, i) =
                      Returns(Without(originalInput, i), mode, fieldKeyNameList)

\* a []*string with a nil pointer before a pointer to a string: the nil
\* pointer came back nil and the string behind its sibling redacted
C24_Witness ==
    /\ returned /\ mode = allow /\ fieldKeyNameList = <<>>
    /\ originalInput = Slice(<<NilPointer, Pointer(String(hunter2))>>)
    /\ output = Slice(<<NilPointer, Pointer(String(redactedMessage))>>)

----------------------------------------------------------------------------
(* The order of MapKeys is not specified: a map is visited in the order of *)
(* its table, and any order of the table can be the one of a run.          *)

\* the exchange of i and j
Exchange(n, i, j) ==
    [k \in 1..n |-> IF k = i THEN j ELSE IF k = j THEN i ELSE k]

\* the orders tried for n entries: all of them for up to three entries, the
\* exchanges of two entries beyond
Orders(n) ==
    IF n <= 3 THEN Permutations(1..n)
    ELSE {Exchange(n, i, j) : i \in 1..n, j \in 1..n}

\* the node n with its fields or entries in the order perm
ReorderedIn(n, perm) ==
    [n EXCEPT !.kids = [i \in 1..Len(n.kids) |-> n.kids[perm[i]]],
              !.names = [i \in 1..Len(n.names) |-> n.names[perm[i]]]]

\* the record or map t visited in the order perm
Reordered(t, perm) ==
    IF t.k = "map" THEN [t EXCEPT !.kids[1] = ReorderedIn(@, perm)]
    ELSE ReorderedIn(t, perm)

(* C25: the result of either operation is a function of the value, the     *)
(* policy and the list alone: a second call with equal inputs returns a    *)
(* structurally equal result, and so does, entry by entry, a call that     *)
(* visits the keys of the map or the fields of the struct in another       *)
(* order.                                                                  *)
C25_Determinism ==
    returned =>
        /\ ~Panics(originalInput, mode, fieldKeyNameList)
        /\ Returns(originalInput, mode, fieldKeyNameList) = output
        /\ Named(originalInput) =>
              \A perm \in Orders(Len(Holder(originalInput).kids)) :
                  /\ ~Panics(Reordered(originalInput, perm), mode, fieldKeyNameList)
                  /\ Returns(Reordered(originalInput, perm), mode, fieldKeyNameList)
                        = Reordered(output, perm)

\* a map of three keys, one of them allowed: the call visiting the keys in
\* the reverse order returns the same entries
C25_Witness ==
    /\ returned /\ mode = allow /\ fieldKeyNameList = <<Username>>
    /\ originalInput =
          StringMap(<<Password, Username, password>>, <<hunter2, hunter2, hunter2>>)
    /\ output =
          StringMap(<<Password, Username, password>>,
                    <<redactedMessage, hunter2, redactedMessage>>)
    /\ Returns(StringMap(<<password, Username, Password>>,
                         <<hunter2, hunter2, hunter2>>), allow, <<Username>>)
          = StringMap(<<password, Username, Password>>,
                      <<redactedMessage, hunter2, redactedMessage>>)

----------------------------------------------------------------------------
(* Termination.  The calls of SpecConcurrent on values with pointer        *)
(* chains, nested holders and nested containers, some of which make the    *)
(* pass panic; a goroutine that can take a step eventually takes it.       *)

TerminationInputs ==
    <<Pointer(Pointer(Struct(<<Password, password>>,
                             <<Pointer(Pointer(String(hunter2))),
                               ByteSlice(hello)>>))),
      structWithByteSlice(ByteArray(hello), ByteArray(hello)),
      Map(<<Password, Username>>,
          <<Slice(<<String(hunter2)>>), Slice(<<String(hello)>>)>>),
      structWithInterface(
          Interface(structWithInterface(Interface(String(hunter2)), NilInterface)),
          NilInterface)>>

\* the inputs of the table are dealt to the calls, round after round
Rounds == (Len(TerminationInputs) + NumCalls - 1) \div NumCalls

\* the calls are given the inputs of one round
InitTermination ==
    /\ originalInput \in
          {[p \in Calls |->
               TerminationInputs[((NumCalls * k + p - 1)
                                     % Len(TerminationInputs)) + 1]] :
             k \in 0..(Rounds - 1)}
    /\ heap = AllocAll(<<>>, originalInput, 1).h
    /\ value = AllocAll(<<>>, originalInput, 1).as
    /\ pc = [p \in Calls |-> "ready"]
    /\ mode = [p \in Calls |-> "none"]
    /\ fieldKeyNameList = [p \in Calls |-> <<>>]
    /\ result = [p \in Calls |-> 0]
    /\ frames = [p \in Calls |-> [deepCopy |-> 0, visits |-> <<>>]]

SpecTermination ==
    /\ InitTermination
    /\ [][NextConcurrent]_vars
    /\ \A p \in Calls : WF_vars(RedactStep(p)) /\ WF_vars(Return(p))

RECURSIVE visitsBelow(_, _), visitsBelowAll(_, _, _)

\* the visits the pass makes at most for the cells as, and extra for each
visitsBelowAll(h, as, extra) ==
    IF as = <<>> THEN 0
    ELSE extra + visitsBelow(h, Head(as)) + visitsBelowAll(h, Tail(as), extra)

\* the visits redact makes at most for the value at a: one for the value, and
\* those of its elements, fields, entries (a copy and a SetMapIndex more for
\* each) or payload (a copy and a Set more); pointers are followed within
\* the visit
visitsBelow(h, a) ==
    LET kids == h[a].kids
    IN CASE h[a].k = "ptr" ->
              IF kids = <<>> THEN 1 ELSE visitsBelow(h, kids[1])
         [] h[a].k \in {"slice", "array", "struct"} ->
              1 + visitsBelowAll(h, kids, 0)
         [] h[a].k = "iface" ->
              IF kids = <<>> THEN 1 ELSE 2 + visitsBelow(h, kids[1])
         [] h[a].k = "map" ->
              IF kids = <<>> THEN 1 ELSE 1 + visitsBelowAll(h, h[kids[1]].kids, 2)
         [] OTHER -> 1

RECURSIVE visitsOf(_, _)

\* the visits the pending visits vs stand for at most
visitsOf(h, vs) ==
    IF vs = <<>> THEN 0
    ELSE LET visit == Head(vs)
         IN (CASE visit.op = "set" -> 1
               [] visit.op = "key" ->
                    2 + visitsBelow(h, h[visit.a].kids[visit.i])
               [] OTHER -> visitsBelow(h, visit.a))
            + visitsOf(h, Tail(vs))

\* the visits call p has still to make at most
remaining(p) == visitsOf(heap, frames[p].visits)

(* C26: the pass of every call is bounded by the size of its input and     *)
(* ends.  A call enters its pass with at most three visits to make for     *)
(* each cell of its value, every step of the pass lowers the number of     *)
(* visits it has still to make, and a call in its pass eventually returns  *)
(* or panics, on pointer chains, nested holders and nested containers.     *)
C26_Termination ==
    /\ [][\A p \in Calls :
             /\ (pc[p] = "ready" /\ pc'[p] = "redacting") =>
                   remaining(p)' <= 3 * Cardinality(Reach(heap, value[p]))
             /\ (pc[p] = "redacting" /\ frames'[p] # frames[p]) =>
                   remaining(p)' < remaining(p)]_vars
    /\ \A p \in Calls :
          (pc[p] = "redacting") ~> (pc[p] \in {"returned", "panicked"})

\* the first call returned from its pass through the pointers to the struct
\* and to the string of its field, the second panicked on its byte array
C26_Witness ==
    /\ pc[1] = "returned" /\ pc[2] = "panicked"
    /\ mode[1] = deny /\ mode[2] = deny
    /\ originalInput[1] = TerminationInputs[1]
    /\ originalInput[2] = TerminationInputs[2]
    /\ frames[1].visits = <<>>
    /\ Load(heap, result[1]) =
          Pointer(Pointer(Struct(<<Password, password>>,
                                 <<Pointer(Pointer(String(redactedMessage))),
                                   ByteSlice(hello)>>)))

----------------------------------------------------------------------------
RECURSIVE SameShape(_, _)

\* r has the shape of t: the same kind, the same field names or keys, nil
\* where t is nil, as many elements, each of the shape of its counterpart
\* (so the same payload type in each interface holder), and the same value
\* where it is not a string or a byte slice
SameShape(t, r) ==
    /\ r.k = t.k
    /\ r.n = t.n
    /\ r.names = t.names
    /\ Len(r.kids) = Len(t.kids)
    /\ t.k \notin {"string", "bytes"} => r.s = t.s
    /\ \A i \in 1..Len(t.kids) : SameShape(t.kids[i], r.kids[i])

(* C27: the value either operation returns has the shape of the input:     *)
(* the same struct fields and map keys, the same lengths of the sequences  *)
(* that are not byte sequences, the same pointers nil, the same type of    *)
(* payload in each interface holder; only string and byte-sequence leaves  *)
(* differ.                                                                 *)
C27_ShapePreserved ==
    returned => SameShape(originalInput, output)

\* a struct of two interface holders, one with a string, one with a nil
\* pointer: the string is redacted and the holders keep their payload types
C27_Witness ==
    /\ returned /\ mode = allow /\ fieldKeyNameList = <<>>
    /\ originalInput =
          structWithInterface(Interface(String(hunter2)), Interface(NilPointer))
    /\ output =
          structWithInterface(Interface(String(redactedMessage)),
                              Interface(NilPointer))

----------------------------------------------------------------------------
RECURSIVE LeavesInDomain(_, _)

\* every string and byte-slice leaf of r is the leaf of t at its place, or
\* the sentinel of its kind
LeavesInDomain(t, r) ==
    IF t.k \in {"string", "bytes"}
    THEN r = t \/ r = Sentinel(t)
    ELSE /\ Len(r.kids) = Len(t.kids)
         /\ \A i \in 1..Len(t.kids) : LeavesInDomain(t.kids[i], r.kids[i])

(* C28: in the value either operation returns every string leaf is the     *)
(* input's leaf at its place or "REDACTED", and every byte-slice leaf is   *)
(* the input's leaf or the bytes of "REDACTED"; nothing else is written.   *)
C28_LeafValueDomain ==
    returned => LeavesInDomain(originalInput, output)

\* a user under the deny list [Key]: the key is the bytes of "REDACTED", the
\* strings are the input's
C28_Witness ==
    /\ returned /\ mode = deny /\ fieldKeyNameList = <<Key>>
    /\ originalInput = user(hunter2, hunter2, ByteSlice(hello))
    /\ output = user(hunter2, hunter2, ByteSlice(redactedMessage))

----------------------------------------------------------------------------
RECURSIVE Other(_, _, _)

\* the value t with the content c in each leaf that differs in r
Other(t, r, c) ==
    IF t.k \in {"string", "bytes"}
    THEN IF r # t THEN [t EXCEPT !.s = c] ELSE t
    ELSE [t EXCEPT !.kids = [i \in 1..Len(t.kids) |->
                                Other(t.kids[i], r.kids[i], c)]]

\* the contents tried in the redacted leaves
OtherContents == {hello, hunter2, redactedMessage, <<42>>}

(* C29: under an allow list the result tells of a redacted leaf only that  *)
(* it was not empty: a value of the same shape that differs from the input *)
(* only in the non-empty contents of leaves the call redacted gives the    *)
(* same result.                                                            *)
C29_NoContentLeak ==
    (returned /\ mode = allow) =>
        \A c \in OtherContents :
            /\ ~Panics(Other(originalInput, output, c), allow, fieldKeyNameList)
            /\ Returns(Other(originalInput, output, c), allow, fieldKeyNameList)
                  = output

\* a user with Username allowed: the password and the key are redacted, and
\* the user with another password and another key gives the same result
C29_Witness ==
    /\ returned /\ mode = allow /\ fieldKeyNameList = <<Username>>
    /\ originalInput = user(hunter2, hunter2, ByteSlice(hello))
    /\ output = user(hunter2, redactedMessage, ByteSlice(redactedMessage))
    /\ Other(originalInput, output, <<42>>) =
          user(hunter2, <<42>>, ByteSlice(<<42>>))
    /\ Returns(user(hunter2, <<42>>, ByteSlice(<<42>>)), allow, <<Username>>)
          = output

----------------------------------------------------------------------------
RECURSIVE AlsoRedacted(_, _, _)

\* every non-empty leaf of t that holds the sentinel in r2 holds it in r1
AlsoRedacted(t, r2, r1) ==
    IF t.k \in {"string", "bytes"}
    THEN (NonEmptyLeaf(t) /\ r2 = Sentinel(t)) => r1 = Sentinel(t)
    ELSE /\ Len(r1.kids) = Len(t.kids)
         /\ Len(r2.kids) = Len(t.kids)
         /\ \A i \in 1..Len(t.kids) :
               AlsoRedacted(t.kids[i], r2.kids[i], r1.kids[i])

\* the names a list is made longer by
AddedNames == ListNames \cup {Groups, Nested, Value}

(* C30: the redaction is monotone in the list.  Every leaf the allow-list  *)
(* call redacted is redacted by the call with a name less in the list, and *)
(* every leaf the deny-list call redacted is redacted by the call with a   *)
(* name more in the list.                                                  *)
C30_Monotonicity ==
    returned =>
        /\ mode = allow =>
              \A i \in 1..Len(fieldKeyNameList) :
                  LET L1 == RemoveAt(fieldKeyNameList, i)
                  IN /\ ~Panics(originalInput, allow, L1)
                     /\ AlsoRedacted(originalInput, output,
                                     Returns(originalInput, allow, L1))
        /\ mode = deny =>
              \A name \in AddedNames :
                  LET L2 == Append(fieldKeyNameList, name)
                  IN /\ ~Panics(originalInput, deny, L2)
                     /\ AlsoRedacted(originalInput, output,
                                     Returns(originalInput, deny, L2))

(* C30 for the calls that return: the call with the smaller allow list, or *)
(* the larger deny list, panics or redacts every leaf the other redacted   *)
C30_Monotonicity_Returning ==
    returned =>
        /\ mode = allow =>
              \A i \in 1..Len(fieldKeyNameList) :
                  LET L1 == RemoveAt(fieldKeyNameList, i)
                  IN \/ Panics(originalInput, allow, L1)
                     \/ AlsoRedacted(originalInput, output,
                                     Returns(originalInput, allow, L1))
        /\ mode = deny =>
              \A name \in AddedNames :
                  LET L2 == Append(fieldKeyNameList, name)
                  IN \/ Panics(originalInput, deny, L2)
                     \/ AlsoRedacted(originalInput, output,
                                     Returns(originalInput, deny, L2))

====
